---- MODULE Spec2Model ----
(***************************************************************************)
(* Docu Genie backend: document ingestion (extract, chunk, embed, index,   *)
(* persist), similarity search with its fallbacks, and the chat composer.  *)
(*                                                                         *)
(* Strings are kept by the lengths of their space-separated words: the     *)
(* string s is the sequence of the lengths of s.split(' '), so "" is <<0>>,*)
(* "ab c" is <<2,1>> and " b" is <<0,1>>.  The length of s is the sum of   *)
(* the word lengths plus one per separating space.  Extracted text is a    *)
(* sequence of tokens: runs of ordinary characters ("a"), runs of terminal *)
(* punctuation ("."), runs of whitespace ("ws") and page markers ("pm").   *)
(* Similarities and distances are in tenths.                               *)
(***************************************************************************)
EXTENDS Integers, Sequences, FiniteSets, TLC

VARIABLES documents, document_chunks, index, collection, chromaUp, ing, fallbackCall,
          users, reg, conn, ocr, conversations, messages

vars == <<documents, document_chunks, index, collection, chromaUp, ing, fallbackCall,
          users, reg, conn, ocr, conversations, messages>>

\* ---------------------------------------------------------------- bounds
MaxDocs == 2
MaxTopK == 4
MaxDistSteps == 2
MaxAttempts == 2
MaxPieces == 3
MaxRequests == 2
MaxCalls == 3
MaxPages == 11
MaxConversations == 2
MaxMessages == 4
MaxUpdates == 3

Users == {1, 2}
DocIds == 1..MaxDocs
TopKs == 1..MaxTopK
Queries == 0..1
Requests == 1..MaxRequests
Callers == 1..MaxCalls

\* ------------------------------------------------------ program constants
maxChunkSize == 1000
overlapSize == 200
EmbeddingSize == 384
DocTopK == 3
GeneralTopK == 3

\* --------------------------------------------------------------- helpers
Min(a, b) == IF a < b THEN a ELSE b
Max(a, b) == IF a > b THEN a ELSE b

RECURSIVE SumSeq(_)
SumSeq(s) == IF s = <<>> THEN 0 ELSE Head(s) + SumSeq(Tail(s))

RECURSIVE SortedSeq(_)
\* the elements of a finite set of integers in increasing order
SortedSeq(S) ==
  IF S = {} THEN <<>>
  ELSE LET m == CHOOSE x \in S : \A y \in S : x <= y
       IN <<m>> \o SortedSeq(S \ {m})

\* String.length of a string kept as word lengths
StrLen(w) == SumSeq(w) + Len(w) - 1

\* String.prototype.trim on a string kept as word lengths
RECURSIVE TrimLeft(_)
TrimLeft(w) == IF Len(w) > 1 /\ Head(w) = 0 THEN TrimLeft(Tail(w)) ELSE w

RECURSIVE TrimRight(_)
TrimRight(w) ==
  IF Len(w) > 1 /\ w[Len(w)] = 0 THEN TrimRight(SubSeq(w, 1, Len(w) - 1)) ELSE w

Trim(w) == TrimRight(TrimLeft(w))

\* Array.prototype.slice(-n)
LastN(s, n) == IF Len(s) <= n THEN s ELSE SubSeq(s, Len(s) - n + 1, Len(s))

\* Array.prototype.slice(0, n) for n >= 0
FirstN(s, n) == IF Len(s) <= n THEN s ELSE SubSeq(s, 1, n)

\* ------------------------------------------------------- text cleaning
\* text.replace(/\s+/g,' ').replace(/\n+/g,'\n').replace(/--- Page \d+ ---/g,'')
\* before the final trim: whitespace runs become one space, markers vanish
RECURSIVE NormalizeTokens(_)
NormalizeTokens(t) ==
  IF t = <<>> THEN <<>>
  ELSE IF Head(t).k = "pm" THEN NormalizeTokens(Tail(t))
  ELSE IF Head(t).k = "ws" THEN <<[k |-> "ws", n |-> 1]>> \o NormalizeTokens(Tail(t))
  ELSE <<Head(t)>> \o NormalizeTokens(Tail(t))

RECURSIVE TrimTokensLeft(_)
TrimTokensLeft(t) ==
  IF t # <<>> /\ Head(t).k = "ws" THEN TrimTokensLeft(Tail(t)) ELSE t

RECURSIVE TrimTokensRight(_)
TrimTokensRight(t) ==
  IF t # <<>> /\ t[Len(t)].k = "ws"
  THEN TrimTokensRight(SubSeq(t, 1, Len(t) - 1)) ELSE t

cleanedText(text) == TrimTokensRight(TrimTokensLeft(NormalizeTokens(text)))

\* extractedText.trim() is the empty string
IsBlank(text) == \A j \in 1..Len(text) : text[j].k = "ws"

\* the word lengths of a token sequence whose whitespace runs are single spaces
RECURSIVE WordLens(_, _)
WordLens(t, cur) ==
  IF t = <<>> THEN <<cur>>
  ELSE IF Head(t).k = "ws" THEN <<cur>> \o WordLens(Tail(t), 0)
  ELSE WordLens(Tail(t), cur + Head(t).n)

\* cleanedText.split(/[.!?]+/): the pieces between punctuation runs
RECURSIVE SplitSentences(_, _)
SplitSentences(t, cur) ==
  IF t = <<>> THEN <<cur>>
  ELSE IF Head(t).k = "." THEN <<cur>> \o SplitSentences(Tail(t), <<>>)
  ELSE SplitSentences(Tail(t), Append(cur, Head(t)))

\* .filter(sentence => sentence.trim().length > 0), each kept as sentence.trim()
RECURSIVE TrimmedSentences(_)
TrimmedSentences(pieces) ==
  IF pieces = <<>> THEN <<>>
  ELSE LET w == Trim(WordLens(Head(pieces), 0))
       IN IF StrLen(w) > 0 THEN <<w>> \o TrimmedSentences(Tail(pieces))
          ELSE TrimmedSentences(Tail(pieces))

sentences(text) == TrimmedSentences(SplitSentences(cleanedText(text), <<>>))

\* the body of the for-loop over sentences: st = [chunks, currentChunk]
AddSentence(st, trimmedSentence, maxSize, overlap) ==
  IF StrLen(st.currentChunk) + StrLen(trimmedSentence) > maxSize
     /\ StrLen(st.currentChunk) > 0
  THEN [chunks |-> Append(st.chunks, Trim(st.currentChunk)),
        currentChunk |-> LastN(st.currentChunk, overlap \div 10) \o trimmedSentence]
  ELSE [chunks |-> st.chunks,
        currentChunk |-> IF StrLen(st.currentChunk) > 0
                         THEN st.currentChunk \o trimmedSentence
                         ELSE trimmedSentence]

RECURSIVE Accumulate(_, _, _, _)
Accumulate(st, ss, maxSize, overlap) ==
  IF ss = <<>> THEN st
  ELSE Accumulate(AddSentence(st, Head(ss), maxSize, overlap), Tail(ss), maxSize, overlap)

\* the chunks built from sentences, before the fixed-width fallback is considered
SentenceChunks(text, maxSize, overlap) ==
  LET st == Accumulate([chunks |-> <<>>, currentChunk |-> <<0>>],
                       sentences(text), maxSize, overlap)
  IN IF StrLen(Trim(st.currentChunk)) > 0
     THEN Append(st.chunks, Trim(st.currentChunk))
     ELSE st.chunks

\* the words a chunk of the sentence path took over from its predecessor:
\* words.slice(-Math.floor(overlapSize / 10)) of the chunk pushed before it
OverlapWords(previous, overlap) == LastN(previous, overlap \div 10)

\* chunk j without the words carried over from chunk j - 1
NonOverlap(chunks, j, overlap) ==
  IF j = 1 THEN chunks[1]
  ELSE SubSeq(chunks[j], Len(OverlapWords(chunks[j - 1], overlap)) + 1, Len(chunks[j]))

\* a + b on strings kept as word lengths
Concat(a, b) == SubSeq(a, 1, Len(a) - 1) \o <<a[Len(a)] + Head(b)>> \o Tail(b)

\* splitTextIntoChunks hands the text to splitByCharacterLimit
NeedsCharacterSplit(text) ==
  SentenceChunks(text, maxChunkSize, overlapSize) = <<>> /\ cleanedText(text) # <<>>

\* ------------------------------------------- splitByCharacterLimit, one pass
\* 0-based positions of the spaces of a string kept as word lengths
SpacePositions(w) ==
  {SumSeq(SubSeq(w, 1, j)) + (j - 1) : j \in 1..(Len(w) - 1)}

\* text.lastIndexOf(' ', from) for from >= 0
LastSpaceIndex(w, from) ==
  LET S == {p \in SpacePositions(w) : p <= from}
  IN IF S = {} THEN -1 ELSE CHOOSE p \in S : \A q \in S : q <= p

\* text.slice(start, end): a negative start counts from the end of the text
SliceStr(w, start, end) ==
  LET len == StrLen(w)
      s == IF start < 0 THEN Max(len + start, 0) ELSE Min(start, len)
      e == Min(end, len)
  IN IF s >= e THEN <<0>>
     ELSE LET sp == SortedSeq({p \in SpacePositions(w) : s <= p /\ p < e})
          IN IF sp = <<>> THEN <<e - s>>
             ELSE <<sp[1] - s>>
                  \o [j \in 1..(Len(sp) - 1) |-> sp[j + 1] - sp[j] - 1]
                  \o <<e - sp[Len(sp)] - 1>>

\* the end of the slice that starts at start
SliceEnd(w, start, maxSize) ==
  LET end == start + maxSize
  IN IF end < StrLen(w) /\ LastSpaceIndex(w, end) > start
     THEN LastSpaceIndex(w, end) ELSE end

\* the start of the next slice
NextStart(end, overlap) == end - overlap

\* ------------------------------------------------------------ durable store
NoDocument == 0

\* dbUtils.getDocumentById: the row, or nothing
HasDocument(id) == id \in DOMAIN documents

\* rows in insertion order (rowid); ORDER BY chunk_index keeps rowid order among ties
RECURSIVE InsertByIndex(_, _)
InsertByIndex(sorted, row) ==
  IF sorted = <<>> THEN <<row>>
  ELSE IF Head(sorted).chunk_index <= row.chunk_index
       THEN <<Head(sorted)>> \o InsertByIndex(Tail(sorted), row)
       ELSE <<row>> \o sorted

RECURSIVE OrderByChunkIndex(_)
OrderByChunkIndex(rows) ==
  IF rows = <<>> THEN <<>>
  ELSE InsertByIndex(OrderByChunkIndex(SubSeq(rows, 1, Len(rows) - 1)), rows[Len(rows)])

\* dbUtils.getDocumentChunks
getDocumentChunks(documentId) ==
  OrderByChunkIndex(SelectSeq(document_chunks, LAMBDA r : r.document_id = documentId))

\* dbUtils.createDocumentChunk
createDocumentChunk(documentId, chunkText, chunkIndex, embeddingId) ==
  Append(document_chunks,
         [document_id |-> documentId, chunk_text |-> chunkText,
          chunk_index |-> chunkIndex, embedding_id |-> embeddingId])

\* dbUtils.updateDocumentProcessed: UPDATE ... WHERE id = ?, no row, no change
updateDocumentProcessed(id, processed) ==
  IF id \in DOMAIN documents THEN [documents EXCEPT ![id].processed = processed]
  ELSE documents

\* dbUtils.deleteDocument: the row goes
deleteDocument(id) == [x \in (DOMAIN documents) \ {id} |-> documents[x]]

\* ON DELETE CASCADE of document_chunks.document_id
CascadeChunks(id) == SelectSeq(document_chunks, LAMBDA r : r.document_id # id)

\* ------------------------------------------------------------- embeddings
\* lengths of the vectors the embedding provider returns
ProviderLengths == {768}

\* createFallbackEmbedding: new Array(384), filled per word, then normalised
createFallbackEmbedding(text) ==
  [threw |-> FALSE, source |-> "fallback", length |-> EmbeddingSize]

\* ---- createFallbackEmbedding and simpleHash, on strings kept as character codes
\* a signed 32-bit integer as its high (signed) and low (unsigned) 16 bits
Lo16(h) == h % 65536
Hi16(h) == h \div 65536
Wrap16(x) == ((x + 32768) % 65536) - 32768
FromHalves(hi, lo) == (hi * 65536) + lo

\* hash << 5
ShiftLeft5(hash) ==
  LET t == Lo16(hash) * 32
  IN FromHalves(Wrap16((Hi16(hash) * 32) + (t \div 65536)), t % 65536)

\* the body of the loop of simpleHash:
\* hash = ((hash << 5) - hash) + char; hash = hash & hash
simpleHashStep(hash, char) ==
  LET s == ShiftLeft5(hash)
      lo == Lo16(s) - Lo16(hash) + char
      hi == Hi16(s) - Hi16(hash) + (lo \div 65536)
  IN FromHalves(Wrap16(hi), lo % 65536)

\* hash % embedding.length without Math.abs: the sign of the hash is kept
PositionNoAbs(hash) ==
  IF hash >= 0 THEN hash % EmbeddingSize
  ELSE -((EmbeddingSize - (hash % EmbeddingSize)) % EmbeddingSize)

\* Math.abs(hash) % embedding.length
Position(hash) ==
  IF hash >= 0 THEN hash % EmbeddingSize
  ELSE (EmbeddingSize - (hash % EmbeddingSize)) % EmbeddingSize

\* String.prototype.toLowerCase on the letters A-Z
ToLower(str) ==
  [j \in 1..Len(str) |-> IF str[j] \in 65..90 THEN str[j] + 32 ELSE str[j]]

\* characters matched by \s
IsSpace(c) == c \in {9, 10, 13, 32}

\* str.split(/\s+/): a run of whitespace ends a word, also an empty one
RECURSIVE SplitSpaces(_, _, _)
SplitSpaces(str, cur, inRun) ==
  IF str = <<>> THEN <<cur>>
  ELSE IF IsSpace(Head(str))
  THEN IF inRun THEN SplitSpaces(Tail(str), cur, TRUE)
       ELSE <<cur>> \o SplitSpaces(Tail(str), <<>>, TRUE)
  ELSE SplitSpaces(Tail(str), Append(cur, Head(str)), FALSE)

RECURSIVE Factorial(_)
Factorial(n) == IF n <= 1 THEN 1 ELSE n * Factorial(n - 1)

\* slot values are kept as multiples of 1 / WeightScale; a text of MaxPieces
\* pieces has at most MaxPieces + 1 words
WeightScale == Factorial(MaxPieces + 1)

\* 1 / (index + 1)
Weight(i) == WeightScale \div (i + 1)

\* new Array(384).fill(0)
ZeroEmbedding == [s \in 0..(EmbeddingSize - 1) |-> 0]

\* embedding[position] += w; an index outside the array changes no element
AddAt(embedding, position, w) ==
  IF position \in DOMAIN embedding THEN [embedding EXCEPT ![position] = @ + w]
  ELSE embedding

\* embedding.reduce((sum, val) => sum + val * val, 0), summed over the slots in S;
\* the slots that hold 0 add nothing
RECURSIVE SumSquares(_, _)
SumSquares(embedding, S) ==
  IF S = {} THEN 0
  ELSE LET s == CHOOSE x \in S : TRUE
       IN (embedding[s] * embedding[s]) + SumSquares(embedding, S \ {s})

\* createEmbeddings without its catch: the provider's error reaches the caller
createEmbeddingsNoFallback(text, providerOk, providerLength) ==
  IF providerOk
  THEN [threw |-> FALSE, source |-> "provider", length |-> providerLength]
  ELSE [threw |-> TRUE, source |-> "none", length |-> 0]

\* createEmbeddings: the provider's vector, or the local fallback when the call throws
createEmbeddings(text, providerOk, providerLength) ==
  IF providerOk
  THEN [threw |-> FALSE, source |-> "provider", length |-> providerLength]
  ELSE createFallbackEmbedding(text)

\* ------------------------------------------------------------ vector index
\* getCollection: initializeChromaDB is tried again while no collection is held
getCollection == collection \/ chromaUp

\* the ids storeInVectorDB hands back
EmbeddingId(documentId, chunkIndex) ==
  [fallback |-> FALSE, doc |-> documentId, chunk |-> chunkIndex]

FallbackEmbeddingId(documentId, chunkIndex) ==
  [fallback |-> TRUE, doc |-> documentId, chunk |-> chunkIndex]

\* the entry coll.add writes
IndexEntry(documentId, text, embedding, chunkIndex) ==
  [document_id |-> documentId, chunk_index |-> chunkIndex,
   text |-> text]

\* the where clause left out: every query ranges over the whole collection
WhereClauseUnfiltered(documentId) == NoDocument

\* whereClause of the index query: 0 stands for "no filter"
WhereClause(documentId) == documentId

\* the entries an index query with that where clause ranges over
Matching(where) ==
  IF where = NoDocument THEN index ELSE {e \in index : e.document_id = where}

\* distance the index reports between a query and an entry, in tenths
Distance(query, e) == 6 * ((query + e.document_id + e.chunk_index) % (MaxDistSteps + 1))

\* a total order on the entries: nearest first
Nearer(query, a, b) ==
  \/ Distance(query, a) < Distance(query, b)
  \/ /\ Distance(query, a) = Distance(query, b)
     /\ \/ a.document_id < b.document_id
        \/ a.document_id = b.document_id /\ a.chunk_index < b.chunk_index

RECURSIVE Ranked(_, _)
Ranked(query, S) ==
  IF S = {} THEN <<>>
  ELSE LET m == CHOOSE x \in S : \A y \in S \ {x} : Nearer(query, x, y)
       IN <<m>> \o Ranked(query, S \ {m})

\* coll.query: the nResults nearest matching entries, nearest first
collQuery(query, nResults, where) == FirstN(Ranked(query, Matching(where)), nResults)

\* the formatted results of the primary path
FormatResults(query, entries) ==
  [j \in 1..Len(entries) |->
     [text |-> entries[j].text,
      similarity |-> 10 - Distance(query, entries[j]),
      documentId |-> entries[j].document_id,
      chunkIndex |-> entries[j].chunk_index]]

\* the chunks the fallback paths read from the durable store
FallbackChunks(documentId) ==
  IF documentId # NoDocument THEN getDocumentChunks(documentId) ELSE <<>>

\* the fallback without slice(0, topK)
FallbackResultsUnsliced(documentId, topK, base) ==
  LET chunks == FallbackChunks(documentId)
  IN [j \in 1..Len(chunks) |->
        [text |-> chunks[j].chunk_text,
         similarity |-> base - (j - 1),
         documentId |-> documentId,
         chunkIndex |-> chunks[j].chunk_index]]

\* chunks.slice(0, topK).map(...) with mock similarities base, base - 0.1, ...
FallbackResults(documentId, topK, base) ==
  LET chunks == FirstN(FallbackChunks(documentId), topK)
  IN [j \in 1..Len(chunks) |->
        [text |-> chunks[j].chunk_text,
         similarity |-> base - (j - 1),
         documentId |-> documentId,
         chunkIndex |-> chunks[j].chunk_index]]

\* searchSimilarChunks; coll is what getCollection returned, queryOk whether coll.query answered
searchSimilarChunks(query, documentId, topK, coll, embedding, queryOk) ==
  IF ~coll
  THEN [path |-> "unavailable", results |-> FallbackResults(documentId, topK, 8)]
  ELSE IF embedding.threw \/ ~queryOk
  THEN [path |-> "catch", results |-> FallbackResults(documentId, topK, 7)]
  ELSE [path |-> "primary",
        results |-> FormatResults(query, collQuery(query, topK, WhereClause(documentId)))]

\* ---------------------------------------------------------------- composer
\* Math.round(x) for x = num / den, den > 0
Round(num, den) == (2 * num + den) \div (2 * den)

\* Math.round(avgConfidence * 100), similarities in tenths
DocumentConfidence(relevantChunks) ==
  Round(10 * SumSeq([j \in 1..Len(relevantChunks) |-> relevantChunks[j].similarity]),
        Len(relevantChunks))

\* generateDocumentResponse after the search; genOk: the generation call answered
generateDocumentResponse(relevantChunks, genOk) ==
  IF Len(relevantChunks) = 0
  THEN [kind |-> "no_content", sources |-> <<>>, sourcesIsErrorText |-> FALSE,
        confidence |-> 0, generationInvoked |-> FALSE]
  ELSE IF genOk
  THEN [kind |-> "answer",
        sources |-> [j \in 1..Len(relevantChunks) |->
                       [documentId |-> NoDocument,
                        chunkIndex |-> relevantChunks[j].chunkIndex,
                        similarity |-> relevantChunks[j].similarity]],
        sourcesIsErrorText |-> FALSE,
        confidence |-> DocumentConfidence(relevantChunks),
        generationInvoked |-> TRUE]
  ELSE [kind |-> "apology", sources |-> <<>>, sourcesIsErrorText |-> FALSE,
        confidence |-> 0, generationInvoked |-> TRUE]

\* generateGeneralResponse after the search
generateGeneralResponse(relevantChunks, genOk) ==
  IF genOk
  THEN [kind |-> "answer",
        sources |-> [j \in 1..Len(relevantChunks) |->
                       [documentId |-> relevantChunks[j].documentId,
                        chunkIndex |-> -1,
                        similarity |-> relevantChunks[j].similarity]],
        sourcesIsErrorText |-> FALSE,
        confidence |-> IF Len(relevantChunks) > 0 THEN 75 ELSE 50,
        generationInvoked |-> TRUE]
  ELSE [kind |-> "apology", sources |-> <<>>, sourcesIsErrorText |-> TRUE,
        confidence |-> 0, generationInvoked |-> TRUE]

\* ------------------------------------------------------------------- state
\* the texts an extraction may yield
ExtractedTexts ==
  { <<[k |-> "ws", n |-> 2]>>,
    <<[k |-> "a", n |-> 600], [k |-> ".", n |-> 1], [k |-> "ws", n |-> 2],
      [k |-> "a", n |-> 600], [k |-> ".", n |-> 1]>>,
    <<[k |-> "pm", n |-> 14], [k |-> "ws", n |-> 1], [k |-> ".", n |-> 3]>>,
    <<[k |-> ".", n |-> 100], [k |-> "ws", n |-> 1], [k |-> ".", n |-> 2000]>> }

NoEmbedding == [threw |-> FALSE, source |-> "none", length |-> 0]

\* the pieces the texts handed to createFallbackEmbedding are made of:
\* " ", "\t\n", "ab", "vs", "VS", "vector"
Pieces ==
  { <<32>>, <<9, 10>>, <<97, 98>>, <<118, 115>>, <<86, 83>>,
    <<118, 101, 99, 116, 111, 114>> }

RECURSIVE TextsUpTo(_)
TextsUpTo(n) ==
  IF n = 0 THEN {<<>>}
  ELSE LET T == TextsUpTo(n - 1) IN T \cup {t \o q : t \in T, q \in Pieces}

FallbackTexts == TextsUpTo(MaxPieces)

\* one call of createFallbackEmbedding: words and index of the forEach, hash and i
\* of the simpleHash call in progress, the array, the positions computed so far,
\* and the squared magnitude the result is divided by
NoFallbackCall ==
  [pc |-> "none", text |-> <<>>, words |-> <<>>, index |-> 0, hash |-> 0, i |-> 0,
   embedding |-> ZeroEmbedding, positions |-> <<>>, magnitudeSq |-> 0]

\* the locals of one processDocument call; attempted: the chunks whose try block was
\* entered; failed: the chunks whose try block threw; embedThrew: createEmbeddings threw;
\* writes: updates of documents.processed made so far; late: a chunk was written after one;
\* pushed: parity of the pushes made by the splitByCharacterLimit loop;
\* cleaned, sents: cleanedText and sentences of splitTextIntoChunks; result: the value
\* processDocument returned; attempt: the number of this run on the document;
\* prev: what the run before this one left behind; prevLength: the length of the
\* vector of the chunk before the one at hand, until this one's vector is used
NoResult == [success |-> FALSE, chunksCreated |-> 0]

NoRun == [pc |-> "none", chunks |-> <<>>, failed |-> {}, processed |-> FALSE, stored |-> <<>>]

Idle ==
  [pc |-> "none", text |-> <<0>>, chunks |-> <<>>, i |-> 0, start |-> 0, pushed |-> 0,
   embedding |-> NoEmbedding, embeddingId |-> FallbackEmbeddingId(0, 0),
   writes |-> 0, attempted |-> {}, failed |-> {}, embedThrew |-> FALSE, late |-> FALSE,
   cleaned |-> <<0>>, sents |-> <<>>, result |-> NoResult, attempt |-> 1, prev |-> NoRun,
   prevLength |-> 0]

\* request bodies of POST /api/auth/register, strings kept as character codes:
\* four bodies the validators accept, two of them with one address in two
\* spellings and one with a space after the username, and seven they reject
RegistrationBodies ==
  LET body(u, e, p) == [username |-> u, email |-> e, password |-> p]
      abc == <<97, 98, 99>>
      abd == <<97, 98, 100>>
      a == <<97, 64, 120, 46, 105, 111>>
      b == <<98, 64, 120, 46, 105, 111>>
      Aaaaa1 == <<65, 97, 97, 97, 97, 49>>
  IN { body(abc, a, Aaaaa1),
       body(<<97, 98, 99, 32>>, <<65, 64, 120, 46, 105, 111>>, Aaaaa1),
       body(abd, a, Aaaaa1),
       body(abc, b, Aaaaa1),
       body(<<97, 98>>, b, Aaaaa1),
       body(<<97, 45, 99>>, b, Aaaaa1),
       body(abd, <<97, 120>>, Aaaaa1),
       body(abd, b, <<97, 97, 97, 97, 97, 49>>),
       body(abd, b, <<65, 65, 65, 65, 65, 49>>),
       body(abd, b, <<65, 97, 97, 97, 97, 97>>),
       body(abd, b, <<65, 97, 49>>) }

\* no request is being handled; err: the code of the error passed to errorHandler
NoRequest ==
  [pc |-> "idle", body |-> [username |-> <<>>, email |-> <<>>, password |-> <<>>],
   username |-> <<>>, email |-> <<>>, err |-> "", status |-> 0]

\* the module-load call of initializeChromaDB has returned and no call is made;
\* inits: the executions of initializeChromaDB so far; load: the module-load call;
\* calls: the calls of getCollection by storeInVectorDB and searchSimilarChunks
Connected ==
  [inits |-> 1, load |-> "done", calls |-> [c \in Callers |-> [pc |-> "idle", op |-> ""]]]

\* image-based PDFs given to extractTextWithOCR: n pages; recognition of page f
\* fails (it throws or the 30 second timer wins the race), page m is recognised
\* with mlen characters of cleaned text, every other page with 40; 0 is no page
OcrFiles ==
  { p \in [n : 1..MaxPages, f : 0..MaxPages, kind : {"throw", "timeout"},
           m : 0..MaxPages, mlen : {0, 10}] :
      /\ p.f <= p.n /\ p.m <= p.n
      /\ (p.f = 0 => p.kind = "throw")
      /\ (p.m = 0 => p.mlen = 0)
      /\ (p.m # 0 => p.m # p.f) }

\* extractTextWithOCR is not called; i: the loop variable; images: the pages whose
\* image is in the upload directory; submitted: the pages given to
\* Tesseract.recognize; extractedText: the pages whose text was appended
NoOcr ==
  [pc |-> "idle", file |-> [n |-> 1, f |-> 0, kind |-> "throw", m |-> 0, mlen |-> 0],
   i |-> 0, images |-> {}, submitted |-> {}, extractedText |-> <<>>]

Init ==
  /\ documents = << >>
  /\ document_chunks = << >>
  /\ index = {}
  /\ chromaUp \in BOOLEAN
  /\ collection = chromaUp
  /\ ing = [d \in DocIds |-> Idle]
  /\ fallbackCall = NoFallbackCall
  /\ users = << >>
  /\ reg = [r \in Requests |-> NoRequest]
  /\ conn = Connected
  /\ ocr = NoOcr
  /\ conversations = << >>
  /\ messages = << >>

\* the event loop is held by a synchronous splitByCharacterLimit loop
Busy == \E d \in DocIds : ing[d].pc = "slice"

\* --------------------------------------------------------------- ingestion
\* the id AUTOINCREMENT gives the next document
NewDocumentId ==
  CHOOSE d \in DocIds : ing[d].pc = "none" /\ \A e \in DocIds : e < d => ing[e].pc # "none"

\* POST /upload: the row is created, processDocument is started and not awaited, 201 is sent
Upload(u) ==
  /\ ~Busy
  /\ \E d \in DocIds : ing[d].pc = "none"
  /\ LET d == NewDocumentId
     IN /\ documents' = (d :> [user_id |-> u, processed |-> FALSE]) @@ documents
        /\ ing' = [ing EXCEPT ![d].pc = "extract"]
  /\ UNCHANGED <<conversations, messages, ocr, conn, users, reg, fallbackCall, document_chunks, index, collection, chromaUp>>

\* the loop over chunks moves on to chunk i + 1, or ends
NextChunk(p) ==
  [p EXCEPT !.i = p.i + 1,
            !.prevLength = IF p.i + 1 < Len(p.chunks) THEN p.embedding.length ELSE 0,
            !.embedding = NoEmbedding,
            !.embeddingId = FallbackEmbeddingId(0, 0),
            !.pc = IF p.i + 1 < Len(p.chunks) THEN "embed" ELSE "mark"]

\* the chunk's error rethrown to the catch of processDocument
chunkCatchRethrow(p) == [p EXCEPT !.failed = @ \cup {p.i}, !.pc = "catch"]

\* catch (chunkError): log and continue with the other chunks
chunkCatch(p) == NextChunk([p EXCEPT !.failed = @ \cup {p.i}])

\* the chunk loop is entered with the chunks the splitter returned
EnterLoop(p, chunks) ==
  [p EXCEPT !.chunks = chunks, !.i = 0, !.text = <<0>>, !.start = 0, !.pushed = 0,
            !.pc = IF Len(chunks) > 0 THEN "embed" ELSE "mark"]

\* processDocument up to the chunk loop: extraction, the empty-text check, splitTextIntoChunks
Extract(d) ==
  /\ ~Busy
  /\ ing[d].pc = "extract"
  /\ \/ ing' = [ing EXCEPT ![d].pc = "catch"]
     \/ \E text \in ExtractedTexts :
          LET p == [ing[d] EXCEPT !.cleaned = WordLens(cleanedText(text), 0),
                                  !.sents = sentences(text)]
          IN ing' = [ing EXCEPT ![d] =
                       IF IsBlank(text) THEN [@ EXCEPT !.pc = "catch"]
                       ELSE IF NeedsCharacterSplit(text)
                       THEN [p EXCEPT !.pc = "slice", !.start = 0, !.chunks = <<>>,
                                      !.text = WordLens(cleanedText(text), 0)]
                       ELSE EnterLoop(p, SentenceChunks(text, maxChunkSize, overlapSize))]
  /\ UNCHANGED <<conversations, messages, ocr, conn, users, reg, fallbackCall, documents, document_chunks, index, collection, chromaUp>>

\* one pass of the while loop of splitByCharacterLimit; the chunks are kept as
\* the final filter leaves them (empty slices dropped)
SliceStep(d) ==
  /\ ing[d].pc = "slice"
  /\ LET p == ing[d]
         end == SliceEnd(p.text, p.start, maxChunkSize)
         chunk == Trim(SliceStr(p.text, p.start, end))
         chunks == IF StrLen(chunk) > 0 THEN Append(p.chunks, chunk) ELSE p.chunks
         start == NextStart(end, overlapSize)
     IN ing' = [ing EXCEPT ![d] =
                  IF start < StrLen(p.text)
                  THEN [@ EXCEPT !.start = start, !.chunks = chunks, !.pushed = 1 - @]
                  ELSE EnterLoop(@, chunks)]
  /\ UNCHANGED <<conversations, messages, ocr, conn, users, reg, fallbackCall, documents, document_chunks, index, collection, chromaUp>>

\* const embedding = await createEmbeddings(chunk)
EmbedChunk(d) ==
  /\ ~Busy
  /\ ing[d].pc = "embed"
  /\ \E providerOk \in BOOLEAN, len \in ProviderLengths :
       LET p == [ing[d] EXCEPT !.attempted = @ \cup {ing[d].i}]
           r == createEmbeddings(p.chunks[p.i + 1], providerOk, len)
       IN ing' = [ing EXCEPT ![d] =
                    IF r.threw THEN chunkCatch([p EXCEPT !.embedThrew = TRUE])
                    ELSE [p EXCEPT !.embedding = r, !.pc = "store"]]
  /\ UNCHANGED <<conversations, messages, ocr, conn, users, reg, fallbackCall, documents, document_chunks, index, collection, chromaUp>>

\* const embeddingId = await storeInVectorDB(documentId, chunk, embedding, i);
\* coll.add throws while the service is away
StoreChunk(d) ==
  /\ ~Busy
  /\ ing[d].pc = "store"
  /\ collection' = getCollection
  /\ LET p == ing[d]
         stored == collection' /\ chromaUp
     IN /\ index' = IF stored
                    THEN index \cup {IndexEntry(d, p.chunks[p.i + 1], p.embedding, p.i)}
                    ELSE index
        /\ ing' = [ing EXCEPT ![d].pc = "persist",
                              ![d].prevLength = 0,
                              ![d].late = @ \/ (stored /\ p.writes > 0),
                              ![d].embeddingId = IF stored THEN EmbeddingId(d, p.i)
                                                 ELSE FallbackEmbeddingId(d, p.i)]
  /\ UNCHANGED <<conversations, messages, ocr, conn, users, reg, fallbackCall, documents, document_chunks, chromaUp>>

\* await dbUtils.createDocumentChunk(documentId, chunk, i, embeddingId), which may reject
\* and does reject (FOREIGN KEY) when the document's row is gone
PersistChunk(d) ==
  /\ ~Busy
  /\ ing[d].pc = "persist"
  /\ LET p == ing[d]
     IN \/ /\ HasDocument(d)
           /\ document_chunks' = createDocumentChunk(d, p.chunks[p.i + 1], p.i, p.embeddingId)
           /\ ing' = [ing EXCEPT ![d] = NextChunk([p EXCEPT !.late = @ \/ p.writes > 0])]
        \/ /\ document_chunks' = document_chunks
           /\ ing' = [ing EXCEPT ![d] = chunkCatch(p)]
  /\ UNCHANGED <<conversations, messages, ocr, conn, users, reg, fallbackCall, documents, index, collection, chromaUp>>

\* a statement after the update throws: the catch block writes the state a second time
MarkProcessedThenThrow(d) ==
  /\ ~Busy
  /\ ing[d].pc = "mark"
  /\ documents' = updateDocumentProcessed(d, TRUE)
  /\ ing' = [ing EXCEPT ![d].pc = "catch", ![d].writes = @ + 1]
  /\ UNCHANGED <<conversations, messages, ocr, conn, users, reg, fallbackCall, document_chunks, index, collection, chromaUp>>

\* the value processDocument returns: { success: true, chunksCreated: chunks.length, ... }
ProcessResult(p) == [success |-> TRUE, chunksCreated |-> Len(p.chunks)]

\* await dbUtils.updateDocumentProcessed(documentId, true); return { ... }
MarkProcessed(d) ==
  /\ ~Busy
  /\ ing[d].pc = "mark"
  /\ documents' = updateDocumentProcessed(d, TRUE)
  /\ ing' = [ing EXCEPT ![d].pc = "done", ![d].writes = @ + 1,
                        ![d].result = ProcessResult(ing[d])]
  /\ UNCHANGED <<conversations, messages, ocr, conn, users, reg, fallbackCall, document_chunks, index, collection, chromaUp>>

\* catch (error): await dbUtils.updateDocumentProcessed(documentId, false); throw
MarkFailed(d) ==
  /\ ~Busy
  /\ ing[d].pc = "catch"
  /\ documents' = updateDocumentProcessed(d, FALSE)
  /\ ing' = [ing EXCEPT ![d].pc = "failed", ![d].writes = @ + 1]
  /\ UNCHANGED <<conversations, messages, ocr, conn, users, reg, fallbackCall, document_chunks, index, collection, chromaUp>>

\* the rows of a document as (ordinal, text), in reading order
ChunkSet(d) ==
  LET r == getDocumentChunks(d)
  IN [j \in 1..Len(r) |-> [chunk_index |-> r[j].chunk_index, chunk_text |-> r[j].chunk_text]]

\* processDocument is run again on a document whose earlier run has ended
Retry(d) ==
  /\ ~Busy
  /\ ing[d].pc \in {"done", "failed"}
  /\ ing[d].attempt < MaxAttempts
  /\ ing' = [ing EXCEPT ![d] =
               [Idle EXCEPT !.pc = "extract",
                            !.attempt = ing[d].attempt + 1,
                            !.prev = [pc |-> ing[d].pc, chunks |-> ing[d].chunks,
                                      failed |-> ing[d].failed,
                                      processed |-> documents[d].processed,
                                      stored |-> ChunkSet(d)]]]
  /\ UNCHANGED <<conversations, messages, ocr, conn, users, reg, fallbackCall, documents, document_chunks, index, collection, chromaUp>>

\* the vector index service goes away or comes back
ChromaToggle ==
  /\ ~Busy
  /\ chromaUp' = ~chromaUp
  /\ UNCHANGED <<conversations, messages, ocr, conn, users, reg, fallbackCall, documents, document_chunks, index, collection, ing>>

\* ------------------------------------------------------------------ queries
\* what searchSimilarChunks(query, documentId, topK) returns in the current state;
\* coll.query throws while the service is away
SearchNow(query, documentId, topK, providerOk) ==
  searchSimilarChunks(query, documentId, topK, getCollection,
                      createEmbeddings(query, providerOk,
                                       CHOOSE len \in ProviderLengths : TRUE),
                      chromaUp)

\* a call of searchSimilarChunks: it reads, and getCollection may initialise the collection
Search(query, documentId, topK) ==
  /\ ~Busy
  /\ collection' = getCollection
  /\ UNCHANGED <<conversations, messages, ocr, conn, users, reg, fallbackCall, documents, document_chunks, index, chromaUp, ing>>

\* the body POST /chat/message by user u answers with in the current state, or
\* the statusCode of the AppError it throws; documentId = NoDocument for a
\* general message
ChatNow(u, query, documentId, providerOk, genOk) ==
  IF documentId # NoDocument /\ ~HasDocument(documentId)
  THEN [status |-> 404]
  ELSE IF documentId # NoDocument /\ documents[documentId].user_id # u
  THEN [status |-> 403]
  ELSE LET a == IF documentId # NoDocument
                THEN generateDocumentResponse(
                       SearchNow(query, documentId, DocTopK, providerOk).results, genOk)
                ELSE generateGeneralResponse(
                       SearchNow(query, NoDocument, GeneralTopK, providerOk).results, genOk)
       IN [status |-> 200, message |-> a.kind, sources |-> a.sources,
           sourcesIsErrorText |-> a.sourcesIsErrorText,
           confidence |-> a.confidence, generationInvoked |-> a.generationInvoked]

\* POST /chat/message: of the state modelled here it changes the collection handle only
ChatMessage(u, query, documentId) ==
  /\ ~Busy
  /\ collection' = IF ChatNow(u, query, documentId, TRUE, TRUE).status = 200
                   THEN getCollection ELSE collection
  /\ UNCHANGED <<conversations, messages, ocr, conn, users, reg, fallbackCall, documents, document_chunks, index, chromaUp, ing>>

IngestStep(d) ==
  \/ Extract(d)
  \/ SliceStep(d)
  \/ EmbedChunk(d)
  \/ StoreChunk(d)
  \/ PersistChunk(d)
  \/ MarkProcessed(d)
  \/ MarkFailed(d)

Next ==
  \/ \E u \in Users : Upload(u)
  \/ \E d \in DocIds : IngestStep(d)
  \/ ChromaToggle
  \/ \E q \in Queries, d \in {NoDocument} \cup DocIds, k \in TopKs : Search(q, d, k)
  \/ \E u \in Users, q \in Queries, d \in {NoDocument} \cup DocIds : ChatMessage(u, q, d)

Spec == Init /\ [][Next]_vars

\* uploads and their ingestions alone
IngestNext ==
  \/ \E u \in Users : Upload(u)
  \/ \E d \in DocIds : IngestStep(d)

\* the event loop runs every continuation that is ready
FairSpec == Init /\ [][IngestNext]_vars /\ \A d \in DocIds : WF_vars(IngestStep(d))

\* DELETE /files/:id by user u: the row is deleted and its chunk rows with it;
\* 404 and 403 change nothing
DeleteFile(u, d) ==
  /\ ~Busy
  /\ HasDocument(d)
  /\ documents[d].user_id = u
  /\ documents' = deleteDocument(d)
  /\ document_chunks' = CascadeChunks(d)
  /\ UNCHANGED <<conversations, messages, ocr, conn, users, reg, fallbackCall, index, collection, chromaUp, ing>>

\* uploads, their ingestions and deletions
DeleteNext ==
  \/ \E u \in Users : Upload(u)
  \/ \E d \in DocIds : IngestStep(d)
  \/ \E u \in Users, d \in DocIds : DeleteFile(u, d)

DeleteSpec == Init /\ [][DeleteNext]_vars

\* --------------------------------------------- createFallbackEmbedding, stepwise
\* const words = text.toLowerCase().split(/\s+/); const embedding = new Array(384).fill(0)
FallbackStart ==
  /\ fallbackCall.pc = "called"
  /\ fallbackCall' = [fallbackCall EXCEPT !.pc = "loop",
                                          !.words = SplitSpaces(ToLower(fallbackCall.text), <<>>, FALSE),
                                          !.index = 0,
                                          !.embedding = ZeroEmbedding]
  /\ UNCHANGED <<conversations, messages, ocr, conn, users, reg, documents, document_chunks, index, collection, chromaUp, ing>>

\* one pass of the for loop of simpleHash(word)
HashChar ==
  /\ fallbackCall.pc = "loop"
  /\ fallbackCall.index < Len(fallbackCall.words)
  /\ fallbackCall.i < Len(fallbackCall.words[fallbackCall.index + 1])
  /\ LET c == fallbackCall
         char == c.words[c.index + 1][c.i + 1]
     IN fallbackCall' = [c EXCEPT !.hash = simpleHashStep(c.hash, char), !.i = c.i + 1]
  /\ UNCHANGED <<conversations, messages, ocr, conn, users, reg, documents, document_chunks, index, collection, chromaUp, ing>>

\* simpleHash returns and the forEach callback adds the word's weight to its slot
FallbackWord ==
  /\ fallbackCall.pc = "loop"
  /\ fallbackCall.index < Len(fallbackCall.words)
  /\ fallbackCall.i = Len(fallbackCall.words[fallbackCall.index + 1])
  /\ LET c == fallbackCall
         position == Position(c.hash)
     IN fallbackCall' = [c EXCEPT !.embedding = AddAt(c.embedding, position, Weight(c.index)),
                                  !.positions = Append(c.positions, position),
                                  !.index = c.index + 1,
                                  !.hash = 0,
                                  !.i = 0]
  /\ UNCHANGED <<conversations, messages, ocr, conn, users, reg, documents, document_chunks, index, collection, chromaUp, ing>>

\* the magnitude is computed and the array, divided by it when positive, is returned
FallbackReturn ==
  /\ fallbackCall.pc = "loop"
  /\ fallbackCall.index = Len(fallbackCall.words)
  /\ fallbackCall' = [fallbackCall EXCEPT !.pc = "returned",
                                          !.magnitudeSq =
                                            SumSquares(fallbackCall.embedding,
                                                       {s \in DOMAIN fallbackCall.embedding :
                                                          fallbackCall.embedding[s] # 0})]
  /\ UNCHANGED <<conversations, messages, ocr, conn, users, reg, documents, document_chunks, index, collection, chromaUp, ing>>

\* createFallbackEmbedding is called with some text
FallbackInit ==
  /\ documents = << >>
  /\ document_chunks = << >>
  /\ index = {}
  /\ chromaUp \in BOOLEAN
  /\ collection = chromaUp
  /\ ing = [d \in DocIds |-> Idle]
  /\ \E text \in FallbackTexts :
       fallbackCall = [NoFallbackCall EXCEPT !.pc = "called", !.text = text]
  /\ users = << >>
  /\ reg = [r \in Requests |-> NoRequest]
  /\ conn = Connected
  /\ ocr = NoOcr
  /\ conversations = << >>
  /\ messages = << >>

FallbackNext == FallbackStart \/ HashChar \/ FallbackWord \/ FallbackReturn

FallbackSpec == FallbackInit /\ [][FallbackNext]_vars

\* uploads of one user, their ingestions and repeated runs of processDocument
RetryNext ==
  \/ Upload(1)
  \/ \E d \in DocIds : IngestStep(d)
  \/ \E d \in DocIds : Retry(d)

RetrySpec == Init /\ [][RetryNext]_vars

\* ------------------------------------------------------------ registration
\* the validators' trim(): whitespace at both ends is removed
trimChars(str) ==
  LET keep == {j \in 1..Len(str) : ~IsSpace(str[j])}
  IN IF keep = {} THEN <<>>
     ELSE SubSeq(str, CHOOSE j \in keep : \A k \in keep : j <= k,
                      CHOOSE j \in keep : \A k \in keep : j >= k)

\* the chains of validateRegistration: the sanitized values replace the body's;
\* isEmail wants one '@' after a local part and a domain ending in a label of
\* two characters or more, normalizeEmail lower-cases the address
validateRegistration(body) ==
  LET username == trimChars(body.username)
      email == trimChars(body.email)
      ats == {j \in 1..Len(email) : email[j] = 64}
      at == CHOOSE j \in ats : TRUE
      dots == {j \in 1..Len(email) : email[j] = 46 /\ j > at + 1}
      isEmail == /\ Cardinality(ats) = 1
                 /\ at > 1
                 /\ \E j \in dots : j <= Len(email) - 2
                 /\ email[Len(email)] # 46
      word == (97..122) \cup (65..90) \cup (48..57) \cup {95}
      password == body.password
  IN [ok |-> /\ Len(username) >= 3 /\ Len(username) <= 30
             /\ \A j \in 1..Len(username) : username[j] \in word
             /\ isEmail
             /\ Len(password) >= 6
             /\ \E j \in 1..Len(password) : password[j] \in 97..122
             /\ \E j \in 1..Len(password) : password[j] \in 65..90
             /\ \E j \in 1..Len(password) : password[j] \in 48..57,
      username |-> username,
      email |-> ToLower(email)]

\* errorHandler: the status for an error with this code
errorHandler(code) == IF code = "SQLITE_CONSTRAINT_UNIQUE" THEN 409 ELSE 500

\* POST /api/auth/register arrives: the validators run, errors answer 400
Register(r, body) ==
  /\ reg[r].pc \in {"idle", "done"}
  /\ LET v == validateRegistration(body)
     IN reg' = [reg EXCEPT ![r] =
                  [pc |-> IF v.ok THEN "check" ELSE "done", body |-> body,
                   username |-> v.username, email |-> v.email, err |-> "",
                   status |-> IF v.ok THEN 0 ELSE 400]]
  /\ UNCHANGED <<conversations, messages, ocr, conn, users, documents, document_chunks, index, collection, chromaUp, ing,
                 fallbackCall>>

\* const existingUser = await dbUtils.getUserByEmail(email); if (existingUser) throw
CheckExisting(r) ==
  /\ reg[r].pc = "check"
  /\ reg' = IF \E j \in 1..Len(users) : users[j].email = reg[r].email
            THEN [reg EXCEPT ![r].pc = "done", ![r].err = "USER_EXISTS",
                             ![r].status = errorHandler("USER_EXISTS")]
            ELSE [reg EXCEPT ![r].pc = "hash"]
  /\ UNCHANGED <<conversations, messages, ocr, conn, users, documents, document_chunks, index, collection, chromaUp, ing,
                 fallbackCall>>

\* const passwordHash = await bcrypt.hash(password, saltRounds)
HashPassword(r) ==
  /\ reg[r].pc = "hash"
  /\ reg' = [reg EXCEPT ![r].pc = "insert"]
  /\ UNCHANGED <<conversations, messages, ocr, conn, users, documents, document_chunks, index, collection, chromaUp, ing,
                 fallbackCall>>

\* the INSERT without the UNIQUE columns of the users table
createUserNoUnique(r) ==
  /\ reg[r].pc = "insert"
  /\ users' = Append(users, [username |-> reg[r].username, email |-> reg[r].email])
  /\ reg' = [reg EXCEPT ![r].pc = "done", ![r].status = 201]
  /\ UNCHANGED <<conversations, messages, ocr, conn, documents, document_chunks, index, collection, chromaUp, ing,
                 fallbackCall>>

\* const userId = await dbUtils.createUser(...); res.status(201): the INSERT fails
\* on a username or an email that a row has (UNIQUE), with the driver's code
createUser(r) ==
  /\ reg[r].pc = "insert"
  /\ \/ /\ \A j \in 1..Len(users) : /\ users[j].username # reg[r].username
                                     /\ users[j].email # reg[r].email
        /\ users' = Append(users, [username |-> reg[r].username, email |-> reg[r].email])
        /\ reg' = [reg EXCEPT ![r].pc = "done", ![r].status = 201]
     \/ /\ \E j \in 1..Len(users) : \/ users[j].username = reg[r].username
                                     \/ users[j].email = reg[r].email
        /\ \E code \in {"SQLITE_CONSTRAINT", "SQLITE_CONSTRAINT_UNIQUE"} :
             reg' = [reg EXCEPT ![r].pc = "done", ![r].err = code,
                                ![r].status = errorHandler(code)]
        /\ users' = users
  /\ UNCHANGED <<conversations, messages, ocr, conn, documents, document_chunks, index, collection, chromaUp, ing,
                 fallbackCall>>

\* registrations, any number of them in flight
RegisterNext ==
  \/ \E r \in Requests, body \in RegistrationBodies : Register(r, body)
  \/ \E r \in Requests : CheckExisting(r)
  \/ \E r \in Requests : HashPassword(r)
  \/ \E r \in Requests : createUser(r)

RegisterSpec == Init /\ [][RegisterNext]_vars

\* ------------------------------------------------- the vector-index connection
\* storeInVectorDB or searchSimilarChunks awaits getCollection(): with no
\* collection held it enters initializeChromaDB up to the awaited
\* getOrCreateCollection, else it goes on with the collection held
GetCollectionCall(c, op) ==
  /\ conn.calls[c].pc = "idle"
  /\ conn' = IF collection
             THEN [conn EXCEPT !.calls[c] = [pc |-> "done", op |-> op]]
             ELSE [conn EXCEPT !.calls[c] = [pc |-> "init", op |-> op],
                               !.inits = conn.inits + 1]
  /\ UNCHANGED <<conversations, messages, ocr, documents, document_chunks, index, collection, chromaUp, ing,
                 fallbackCall, users, reg>>

\* the awaited getOrCreateCollection of the module-load call (c = 0) or of call c
\* settles: its result is assigned to collection, its failure is caught
InitializeSettles(c) ==
  /\ IF c = 0 THEN conn.load = "init" ELSE conn.calls[c].pc = "init"
  /\ collection' = (chromaUp \/ collection)
  /\ conn' = IF c = 0 THEN [conn EXCEPT !.load = "done"]
             ELSE [conn EXCEPT !.calls[c].pc = "done"]
  /\ UNCHANGED <<conversations, messages, ocr, documents, document_chunks, index, chromaUp, ing, fallbackCall,
                 users, reg>>

\* the module is imported: initializeChromaDB().catch(console.error) is under way
ConnectInit ==
  /\ documents = << >>
  /\ document_chunks = << >>
  /\ index = {}
  /\ chromaUp \in BOOLEAN
  /\ collection = FALSE
  /\ ing = [d \in DocIds |-> Idle]
  /\ fallbackCall = NoFallbackCall
  /\ users = << >>
  /\ reg = [r \in Requests |-> NoRequest]
  /\ conn = [Connected EXCEPT !.load = "init"]
  /\ ocr = NoOcr
  /\ conversations = << >>
  /\ messages = << >>

ConnectNext ==
  \/ \E c \in Callers, op \in {"storeInVectorDB", "searchSimilarChunks"} :
       GetCollectionCall(c, op)
  \/ \E c \in {0} \cup Callers : InitializeSettles(c)

ConnectSpec == ConnectInit /\ [][ConnectNext]_vars

\* ------------------------------------------------------- extractTextWithOCR
\* Math.min(pageCount.length, 10)
maxPages(file) == Min(file.n, 10)

\* what the Promise.race of page i + 1 settles with: kind and cleanText.length
Recognition(file, page) ==
  IF page = file.f THEN [kind |-> file.kind, length |-> 0]
  ELSE IF page = file.m THEN [kind |-> "text", length |-> file.mlen]
  ELSE [kind |-> "text", length |-> 40]

\* const pageCount = await convert.bulk(-1): one image per page is written
ConvertPages(file) ==
  /\ ocr.pc = "idle"
  /\ ocr' = [ocr EXCEPT !.pc = "loop", !.file = file, !.i = 0, !.images = 1..file.n]
  /\ UNCHANGED <<conversations, messages, documents, document_chunks, index, collection, chromaUp, ing,
                 fallbackCall, users, reg, conn>>

\* the page loop without the inner try: a page's error ends the call
RecognizePageNoCatch ==
  /\ ocr.pc = "loop"
  /\ ocr.i < maxPages(ocr.file)
  /\ LET page == ocr.i + 1
         r == Recognition(ocr.file, page)
     IN ocr' = IF r.kind = "text"
               THEN [ocr EXCEPT !.i = page,
                                !.submitted = ocr.submitted \cup {page},
                                !.extractedText =
                                   IF r.length > 10 THEN Append(ocr.extractedText, page)
                                   ELSE ocr.extractedText,
                                !.images = ocr.images \ {page}]
               ELSE [ocr EXCEPT !.pc = "threw",
                                !.submitted = ocr.submitted \cup {page}]
  /\ UNCHANGED <<conversations, messages, documents, document_chunks, index, collection, chromaUp, ing,
                 fallbackCall, users, reg, conn>>

\* one pass of the page loop: the text is appended when longer than 10
\* characters and the image unlinked, or the catch logs the page's error
RecognizePage ==
  /\ ocr.pc = "loop"
  /\ ocr.i < maxPages(ocr.file)
  /\ LET page == ocr.i + 1
         r == Recognition(ocr.file, page)
     IN ocr' = IF r.kind = "text"
               THEN [ocr EXCEPT !.i = page,
                                !.submitted = ocr.submitted \cup {page},
                                !.extractedText =
                                   IF r.length > 10 THEN Append(ocr.extractedText, page)
                                   ELSE ocr.extractedText,
                                !.images = ocr.images \ {page}]
               ELSE [ocr EXCEPT !.i = page,
                                !.submitted = ocr.submitted \cup {page}]
  /\ UNCHANGED <<conversations, messages, documents, document_chunks, index, collection, chromaUp, ing,
                 fallbackCall, users, reg, conn>>

\* the page loop is over: the cleanup loop starts at page maxPages + 1
CleanupPage ==
  \/ /\ ocr.pc = "loop"
     /\ ocr.i = maxPages(ocr.file)
     /\ ocr' = [ocr EXCEPT !.pc = "cleanup"]
     /\ UNCHANGED <<conversations, messages, documents, document_chunks, index, collection, chromaUp, ing,
                    fallbackCall, users, reg, conn>>
  \/ /\ ocr.pc = "cleanup"
     /\ ocr.i < ocr.file.n
     /\ ocr' = [ocr EXCEPT !.i = ocr.i + 1, !.images = ocr.images \ {ocr.i + 1}]
     /\ UNCHANGED <<conversations, messages, documents, document_chunks, index, collection, chromaUp, ing,
                    fallbackCall, users, reg, conn>>

\* if (!extractedText.trim()) throw ...; return extractedText
OcrReturn ==
  /\ ocr.pc = "cleanup"
  /\ ocr.i = ocr.file.n
  /\ ocr' = [ocr EXCEPT !.pc = IF ocr.extractedText = <<>> THEN "threw" ELSE "returned"]
  /\ UNCHANGED <<conversations, messages, documents, document_chunks, index, collection, chromaUp, ing,
                 fallbackCall, users, reg, conn>>

OcrNext ==
  \/ \E file \in OcrFiles : ConvertPages(file)
  \/ RecognizePage
  \/ CleanupPage
  \/ OcrReturn

OcrSpec == Init /\ [][OcrNext]_vars

\* ------------------------------------------------------------ conversations
\* the text of message q, as character codes: "hi" and sixty times "x"
MessageText(q) == IF q = 0 THEN <<104, 105>> ELSE [j \in 1..60 |-> 120]

\* the titles PATCH /conversations/:id is sent: "t", " t " and " "
PatchTitles == { <<116>>, <<32, 116, 32>>, <<32>> }

\* a title column that is NULL
NullTitle == << >>

\* dbUtils.updateConversation(id, title) on the rows convs; updated_at counts the
\* times the row's timestamp was set
updateConversation(convs, id, title) ==
  IF id \in DOMAIN convs
  THEN [convs EXCEPT ![id].title = title, ![id].updated_at = @ + 1]
  ELSE convs

\* dbUtils.getMessagesByConversationId(conversationId)
getMessagesByConversationId(conversationId) ==
  SelectSeq(messages, LAMBDA m : m.conversation_id = conversationId)

\* POST /chat/message by user u with body [message, documentId, conversationId],
\* conversationId 0 for none: the status, the tables it leaves, the conversation
\* it wrote to and the history it gave to the generation
postMessage(u, body, providerOk, genOk) ==
  LET chat == ChatNow(u, body.message, body.documentId, providerOk, genOk)
      created == body.conversationId = 0
      id == IF created THEN Len(conversations) + 1 ELSE body.conversationId
      convs == IF created
               THEN Append(conversations,
                           [user_id |-> u, document_id |-> body.documentId,
                            title |-> FirstN(MessageText(body.message), 50)
                                        \o <<46, 46, 46>>,
                            updated_at |-> 0])
               ELSE conversations
      row(role, kind) == [conversation_id |-> id, role |-> role,
                          query |-> body.message, kind |-> kind]
  IN IF chat.status # 200 \/ id \notin DOMAIN convs
     THEN [status |-> errorHandler(IF chat.status = 404 THEN "DOCUMENT_NOT_FOUND"
                                   ELSE IF chat.status = 403 THEN "ACCESS_DENIED"
                                   ELSE "SQLITE_CONSTRAINT"),
           conversations |-> conversations, messages |-> messages,
           conversationId |-> 0, history |-> <<>>]
     ELSE [status |-> 200,
           conversations |-> updateConversation(convs, id, NullTitle),
           messages |-> messages \o <<row("user", "message"),
                                      row("assistant", chat.message)>>,
           conversationId |-> id,
           history |-> getMessagesByConversationId(id)]

\* POST /chat/message is handled
PostMessage(u, body, providerOk, genOk) ==
  /\ ~Busy
  /\ body.conversationId = 0 => Len(conversations) < MaxConversations
  /\ Len(messages) + 2 <= MaxMessages
  /\ LET r == postMessage(u, body, providerOk, genOk)
     IN /\ conversations' = r.conversations
        /\ messages' = r.messages
  /\ UNCHANGED <<documents, document_chunks, index, collection, chromaUp, ing,
                 fallbackCall, users, reg, conn, ocr>>

\* PATCH /conversations/:id by user u: 400 without a title, 404 for a
\* conversation that is not the user's, else the trimmed title is written
PatchConversation(u, id, title) ==
  /\ trimChars(title) # <<>>
  /\ id \in DOMAIN conversations
  /\ conversations[id].user_id = u
  /\ conversations[id].updated_at < MaxUpdates
  /\ conversations' = updateConversation(conversations, id, trimChars(title))
  /\ UNCHANGED <<messages, documents, document_chunks, index, collection, chromaUp,
                 ing, fallbackCall, users, reg, conn, ocr>>

\* uploads, chat messages and title changes
ConversationNext ==
  \/ \E u \in Users : Upload(u)
  \/ \E u \in Users, providerOk, genOk \in BOOLEAN,
        body \in [message : Queries, documentId : {NoDocument} \cup DocIds,
                  conversationId : 0..MaxConversations] :
       PostMessage(u, body, providerOk, genOk)
  \/ \E u \in Users, id \in 1..MaxConversations, title \in PatchTitles :
       PatchConversation(u, id, title)

ConversationSpec == Init /\ [][ConversationNext]_vars

\* ------------------------------------------------------------------ claims
Owner(d) == documents[d].user_id
Stored(d) == Len(getDocumentChunks(d))
Terminal(d) == ing[d].pc \in {"done", "failed"}

\* C1: a search scoped to document A returns only results whose documentId is A,
\* on the primary path and on both fallback paths
C1_ScopedSearchStaysInDocument ==
  \A q \in Queries, A \in DocIds, k \in TopKs, ok \in BOOLEAN :
    LET r == SearchNow(q, A, k, ok).results
    IN \A j \in 1..Len(r) : r[j].documentId = A

\* a scoped search on the primary path finds passages while another document is indexed too
C1_Witness ==
  \E q \in Queries, A \in DocIds, k \in TopKs :
    LET s == SearchNow(q, A, k, TRUE)
    IN /\ s.path = "primary"
       /\ Len(s.results) > 0
       /\ \E e \in index : e.document_id # A

\* C2: a general message of user u yields sources of u's own documents only
C2_GeneralSearchStaysWithUser ==
  \A u \in Users, q \in Queries, ok \in BOOLEAN :
    LET c == ChatNow(u, q, NoDocument, ok, TRUE)
    IN \A j \in 1..Len(c.sources) : Owner(c.sources[j].documentId) = u

\* C3: a document whose processed flag is not set answers "no content" with no sources
C3_UnprocessedNotQueryable ==
  \A d \in DOMAIN documents :
    ~documents[d].processed =>
      \A q \in Queries, ok \in BOOLEAN, genOk \in BOOLEAN :
        LET c == ChatNow(Owner(d), q, d, ok, genOk)
        IN c.message = "no_content" /\ c.sources = <<>>

\* C4: zero retrieved passages give confidence 0 and no generation call,
\* for document-scoped and for general messages
C4_EmptyRetrievalShortCircuits ==
  \A u \in Users, q \in Queries, d \in {NoDocument} \cup DocIds,
     ok \in BOOLEAN, genOk \in BOOLEAN :
    LET c == ChatNow(u, q, d, ok, genOk)
        topK == IF d # NoDocument THEN DocTopK ELSE GeneralTopK
    IN (c.status = 200 /\ Len(SearchNow(q, d, topK, ok).results) = 0)
         => (c.confidence = 0 /\ ~c.generationInvoked)

\* C5: a document ingested with n > 0 stored chunks answers a scoped search with
\* min(k, n) passages
C5_ProcessedDocumentIsSearchable ==
  \A d \in DOMAIN documents :
    (documents[d].processed /\ Stored(d) > 0) =>
      \A q \in Queries, k \in TopKs, ok \in BOOLEAN :
        Len(SearchNow(q, d, k, ok).results) = Min(k, Stored(d))

\* C6: a search returns at most topK results, in order of non-increasing similarity
C6_AtMostTopKDescending ==
  \A q \in Queries, d \in {NoDocument} \cup DocIds, k \in TopKs, ok \in BOOLEAN :
    LET r == SearchNow(q, d, k, ok).results
    IN /\ Len(r) <= k
       /\ \A j \in 1..(Len(r) - 1) : r[j].similarity >= r[j + 1].similarity

\* two chunks are stored and a search for one passage returns one, and a search
\* for more returns both, in order
C6_Witness ==
  \E q \in Queries, d \in DocIds :
    /\ Len(SearchNow(q, d, 1, TRUE).results) = 1
    /\ LET r == SearchNow(q, d, 2, TRUE).results
       IN Len(r) = 2 /\ r[1].similarity > r[2].similarity

\* C7: createEmbeddings never throws; when the provider call fails the vector
\* returned is the fallback's, of length 384
C7_EmbeddingNeverFails ==
  \A d \in DocIds :
    /\ ~ing[d].embedThrew
    /\ ~ing[d].embedding.threw
    /\ ing[d].embedding.source = "fallback" => ing[d].embedding.length = 384

\* an ingestion holds the vector of a chunk whose provider call failed
C7_Witness ==
  \E d \in DocIds : ing[d].pc = "store" /\ ing[d].embedding.source = "fallback"

\* C8: a chunk's failure does not end the loop: a finished ingestion has entered the
\* try block of every chunk and has marked the document processed
C8_ChunkFailureIsolated ==
  \A d \in DocIds :
    /\ ing[d].failed # {} => ing[d].pc \notin {"catch", "failed"}
    /\ ing[d].pc = "done" =>
         /\ ing[d].attempted = 0..(Len(ing[d].chunks) - 1)
         /\ documents[d].processed

\* chunk 0 failed, chunk 1 was persisted after it and the document is processed
C8_Witness ==
  \E d \in DocIds :
    /\ ing[d].pc = "done"
    /\ 0 \in ing[d].failed
    /\ \E j \in 1..Len(document_chunks) :
         document_chunks[j].document_id = d /\ document_chunks[j].chunk_index = 1

\* C9: every ingestion started by an upload terminates with the processed state written
C9_IngestionTerminates ==
  \A d \in DocIds : (ing[d].pc = "extract") ~> (Terminal(d) /\ ing[d].writes = 1)

\* C10: an ingestion writes the processed state once, when it ends, and writes
\* no chunk after it
C10_SingleTerminalWrite ==
  \A d \in DocIds :
    /\ ing[d].writes = IF Terminal(d) THEN 1 ELSE 0
    /\ ~ing[d].late

\* an ingestion that stored chunks has ended with its one write
C10_Witness ==
  \E d \in DocIds : ing[d].pc = "done" /\ ing[d].writes = 1 /\ Stored(d) > 0

\* C11: a second run of processDocument on the same file with the same outcomes of
\* the external services leaves the processed state and the stored chunks as the
\* first run left them
C11_RetryIdempotent ==
  \A d \in DocIds :
    (/\ ing[d].attempt > 1
     /\ Terminal(d)
     /\ ing[d].pc = ing[d].prev.pc
     /\ ing[d].chunks = ing[d].prev.chunks
     /\ ing[d].failed = ing[d].prev.failed)
      => /\ documents[d].processed = ing[d].prev.processed
         /\ ChunkSet(d) = ing[d].prev.stored

\* C12: the stored state of a document whose ingestion aborted differs from the
\* stored state of a document whose ingestion has not finished
C12_FailedDiffersFromPending ==
  \A d \in DOMAIN documents, e \in DOMAIN documents :
    (ing[d].pc = "failed" /\ ing[e].pc \notin {"done", "failed"})
      => documents[d].processed # documents[e].processed

\* C13: the chunks stored for a processed document carry the ordinals 0..n-1,
\* each once, in order
C13_OrdinalsContiguous ==
  \A d \in DOMAIN documents :
    documents[d].processed =>
      LET r == getDocumentChunks(d)
      IN \A j \in 1..Len(r) : r[j].chunk_index = j - 1

\* C14: the chunksCreated a finished processDocument returned is the number of
\* chunks it created, so it is below the chunker's count when a chunk failed
C14_ChunksCreatedCountsCreated ==
  \A d \in DocIds :
    ing[d].pc = "done" =>
      /\ ing[d].result.chunksCreated = Len(ing[d].chunks) - Cardinality(ing[d].failed)
      /\ ing[d].failed # {} => ing[d].result.chunksCreated < Len(ing[d].chunks)

\* C15: every chunk is at most maxChunkSize long, unless it is one sentence that
\* alone is longer than maxChunkSize
C15_ChunkLengthBounded ==
  \A d \in DocIds :
    \A j \in 1..Len(ing[d].chunks) :
      \/ StrLen(ing[d].chunks[j]) <= maxChunkSize
      \/ \E k \in 1..Len(ing[d].sents) :
           ing[d].sents[k] = ing[d].chunks[j] /\ StrLen(ing[d].sents[k]) > maxChunkSize

\* the non-overlap regions of chunks 1..n put together, directly (spaced = FALSE)
\* or with one space between two regions (spaced = TRUE)
RECURSIVE Reconstruct(_, _, _)
Reconstruct(chunks, n, spaced) ==
  IF n = 0 THEN <<0>>
  ELSE IF n = 1 THEN NonOverlap(chunks, 1, overlapSize)
  ELSE IF spaced
  THEN Reconstruct(chunks, n - 1, spaced) \o NonOverlap(chunks, n, overlapSize)
  ELSE Concat(Reconstruct(chunks, n - 1, spaced), NonOverlap(chunks, n, overlapSize))

\* C16: the chunks of a text, each without the overlap carried over from its
\* predecessor and put together in ordinal order, are the cleaned text
C16_ChunksReconstructText ==
  \A d \in DocIds :
    ing[d].pc \in {"embed", "store", "persist", "mark", "done"} =>
      \/ Reconstruct(ing[d].chunks, Len(ing[d].chunks), FALSE) = ing[d].cleaned
      \/ Reconstruct(ing[d].chunks, Len(ing[d].chunks), TRUE) = ing[d].cleaned

\* 31 * h + c wrapped to a signed 32-bit integer
Times31Plus(h, c) ==
  LET t == (31 * Lo16(h)) + c
  IN FromHalves(Wrap16((31 * Hi16(h)) + (t \div 65536)), t % 65536)

\* the 31 * h + charCode hash of the first n characters of a word
RECURSIVE Hash32(_, _)
Hash32(word, n) ==
  IF n = 0 THEN 0 ELSE Times31Plus(Hash32(word, n - 1), word[n])

\* |hash32(w)| mod 384
SlotOf(word) ==
  LET h == Hash32(word, Len(word))
  IN IF h < 0 THEN (EmbeddingSize - (h % EmbeddingSize)) % EmbeddingSize
     ELSE h % EmbeddingSize

\* the sum of 1/(i+1) over the words i < n whose slot is s
RECURSIVE SlotSum(_, _, _)
SlotSum(words, n, s) ==
  IF n = 0 THEN 0
  ELSE SlotSum(words, n - 1, s) + (IF SlotOf(words[n]) = s THEN Weight(n - 1) ELSE 0)

\* C17: before normalisation slot s of the fallback embedding holds the sum of
\* 1/(i+1) over the words i with |hash32(w_i)| mod 384 = s, and every slot index
\* computed lies in 0..383
C17_FallbackEmbeddingFormula ==
  fallbackCall.pc \in {"loop", "returned"} =>
    /\ \A s \in 0..383 :
         fallbackCall.embedding[s] = SlotSum(fallbackCall.words, fallbackCall.index, s)
    /\ \A j \in 1..Len(fallbackCall.positions) : fallbackCall.positions[j] \in 0..383

\* a call has returned for a text with two different words that share a slot,
\* one of them with a negative hash
C17_Witness ==
  /\ fallbackCall.pc = "returned"
  /\ \E j \in 1..Len(fallbackCall.words), k \in 1..Len(fallbackCall.words) :
       /\ fallbackCall.words[j] # fallbackCall.words[k]
       /\ fallbackCall.positions[j] = fallbackCall.positions[k]
       /\ Hash32(fallbackCall.words[k], Len(fallbackCall.words[k])) < 0

\* C18: with at least one passage retrieved, the confidence of an answer is the mean
\* similarity of the passages times 100, rounded, and lies in 0..100, for
\* document-scoped and for general messages
C18_ConfidenceIsMeanSimilarity ==
  \A u \in Users, q \in Queries, d \in {NoDocument} \cup DocIds, ok \in BOOLEAN :
    LET c == ChatNow(u, q, d, ok, TRUE)
        r == SearchNow(q, d, IF d # NoDocument THEN DocTopK ELSE GeneralTopK, ok).results
    IN (c.status = 200 /\ Len(r) > 0) =>
         /\ c.confidence =
              Round(10 * SumSeq([j \in 1..Len(r) |-> r[j].similarity]), Len(r))
         /\ c.confidence \in 0..100

\* C19: every result of a search carries a similarity within [0, 1]
C19_SimilarityInUnitInterval ==
  \A q \in Queries, d \in {NoDocument} \cup DocIds, k \in TopKs, ok \in BOOLEAN :
    LET r == SearchNow(q, d, k, ok).results
    IN \A j \in 1..Len(r) : r[j].similarity >= 0 /\ r[j].similarity <= 10

\* C20: when the generation call fails the response is the apology with confidence 0
\* and an empty sources list, and carries no text of the error
C20_GenerationFailureIsOpaque ==
  \A u \in Users, q \in Queries, d \in {NoDocument} \cup DocIds, ok \in BOOLEAN :
    LET c == ChatNow(u, q, d, ok, FALSE)
    IN (c.status = 200 /\ c.generationInvoked) =>
         /\ c.message = "apology"
         /\ c.confidence = 0
         /\ c.sources = <<>>
         /\ ~c.sourcesIsErrorText

\* DELETE /files/:id has succeeded for document d
Deleted(d) == ing[d].pc # "none" /\ ~HasDocument(d)

\* C21: once a document is deleted no chunk of it is left in the chunk store or in
\* the vector index, and no search, scoped or not, returns a passage of it
C21_DeleteCascadesToChunks ==
  \A d \in DocIds :
    Deleted(d) =>
      /\ \A j \in 1..Len(document_chunks) : document_chunks[j].document_id # d
      /\ \A e \in index : e.document_id # d
      /\ \A q \in Queries, s \in {NoDocument} \cup DocIds, k \in TopKs, ok \in BOOLEAN :
           LET r == SearchNow(q, s, k, ok).results
           IN \A j \in 1..Len(r) : r[j].documentId # d

\* C22: the chunks of one document are embedded with vectors of one length, also
\* when the provider fails for some chunks and answers for others: the vector of
\* a chunk has the length of the vector of the chunk before it
C22_EmbeddingDimensionConsistent ==
  \A d \in DocIds :
    (ing[d].pc = "store" /\ ing[d].prevLength # 0) =>
      ing[d].embedding.length = ing[d].prevLength

\* the answers of the register route, the username rule read on the username as
\* sent (asSent) or on the username without the whitespace around it, and the
\* emails of the users
RegistrationAnswers(asSent) ==
  LET name(b) == IF asSent THEN b.username ELSE trimChars(b.username)
      BadName(n) == \/ Len(n) < 3
                    \/ \E j \in 1..Len(n) :
                         n[j] \notin (97..122) \cup (65..90) \cup (48..57) \cup {95}
      BadPassword(p) == \/ \A j \in 1..Len(p) : p[j] \notin 65..90
                        \/ \A j \in 1..Len(p) : p[j] \notin 97..122
                        \/ \A j \in 1..Len(p) : p[j] \notin 48..57
      Used(r) == \E j \in 1..Len(users) : \/ users[j].username = reg[r].username
                                           \/ users[j].email = reg[r].email
  IN /\ \A r \in Requests :
          reg[r].pc = "done" =>
            /\ (BadName(name(reg[r].body)) \/ BadPassword(reg[r].body.password))
                 => reg[r].status = 400
            /\ (validateRegistration(reg[r].body).ok /\ ~Used(r))
                 => reg[r].status = 201
     /\ \A j, k \in 1..Len(users) : users[j].email = users[k].email => j = k

\* the step that answers a registration creates one user with 201 and none otherwise
RegistrationCreates ==
  \A r \in Requests :
    (reg[r].pc # "done" /\ reg'[r].pc = "done") =>
      /\ reg'[r].status = 201 =>
           users' = Append(users, [username |-> reg'[r].username,
                                   email |-> reg'[r].email])
      /\ reg'[r].status # 201 => users' = users

\* C23 (as stated): register answers 201 and creates exactly one user for valid
\* data not used before, answers 400 and creates no user when the username is
\* shorter than 3 characters or has a character other than letters, digits and
\* underscore or the password lacks an uppercase letter, a lowercase letter or a
\* digit, and no two users ever share an email
C23_RegisterAsStated == [](RegistrationAnswers(TRUE)) /\ [][RegistrationCreates]_vars

\* C23 (amended): the same, the username rule applied to the username without the
\* whitespace around it
C23_RegisterContract == [](RegistrationAnswers(FALSE)) /\ [][RegistrationCreates]_vars

\* a username sent with a trailing space was registered, and a concurrent
\* registration of the same email failed at the INSERT
C23_Witness ==
  \E r, o \in Requests :
    /\ reg[r].pc = "done" /\ reg[r].status = 201
    /\ reg[r].body.username # reg[r].username
    /\ reg[o].pc = "done" /\ reg[o].email = reg[r].email
    /\ reg[o].err \in {"SQLITE_CONSTRAINT", "SQLITE_CONSTRAINT_UNIQUE"}
    /\ Len(users) = 1

\* C24: initializeChromaDB is executed at most once per process, however the
\* module-load call and the getCollection calls of storeInVectorDB and
\* searchSimilarChunks interleave, and a call made after a collection is held
\* reuses it
C24_InitializedAtMostOnce == conn.inits <= 1

\* extractTextWithOCR is over; every page up to the page limit was given to
\* recognition, no page that failed is in the text, and the text has, in page
\* order, the pages recognised with more than least characters
OcrTolerant(least) ==
  ocr.pc \in {"returned", "threw"} =>
    LET limit == 1..maxPages(ocr.file)
        recognised == {page \in limit :
                         LET r == Recognition(ocr.file, page)
                         IN r.kind = "text" /\ r.length > least}
        text == ocr.extractedText
    IN /\ ocr.submitted = limit
       /\ {text[j] : j \in 1..Len(text)} = recognised
       /\ \A j, k \in 1..Len(text) : j < k => text[j] < text[k]
       /\ recognised # {} => ocr.pc = "returned"

\* C25 (as stated): when the recognition of a page times out or throws only that
\* page is skipped: every later page up to the page limit is still given to
\* recognition and the text of all pages recognised with text is returned
C25_OcrPartialFailureAsStated == OcrTolerant(0)

\* C25 (amended): the same for the text of all pages recognised with more than 10
\* characters of cleaned text
C25_OcrPartialFailureTolerant == OcrTolerant(10)

\* more than 10 pages, a page failed, a later page is in the returned text and a
\* page recognised with 10 characters is not
C25_Witness ==
  /\ ocr.pc = "returned"
  /\ ocr.file.n > 10
  /\ ocr.file.f \in 1..9
  /\ ocr.file.mlen = 10
  /\ \E j \in 1..Len(ocr.extractedText) : ocr.extractedText[j] > ocr.file.f
  /\ \A j \in 1..Len(ocr.extractedText) : ocr.extractedText[j] # ocr.file.m

\* C26: when extractTextWithOCR has returned or thrown, no page image written by
\* the conversion is left, the image of a page whose recognition failed or timed
\* out included
C26_NoPageImageRemains == ocr.pc \in {"returned", "threw"} => ocr.images = {}


\* C27: a scoped query served by the fallback search, entered because no
\* collection is held or because the query on the collection threw, gets the
\* first topK chunks of the document in ordinal order, the result at rank r with
\* similarity 0.8 - 0.1 * r (in tenths: 8 - r), the same from both entries
C27_FallbackEntriesAgree ==
  \A d \in DocIds, k \in TopKs, q \in Queries, ok \in BOOLEAN :
    HasDocument(d) =>
      LET embedding == createEmbeddings(q, ok, CHOOSE len \in ProviderLengths : TRUE)
          unavailable == searchSimilarChunks(q, d, k, FALSE, embedding, FALSE)
          threw == searchSimilarChunks(q, d, k, TRUE, embedding, FALSE)
          chunks == FirstN(getDocumentChunks(d), k)
          Expected(results) ==
            /\ Len(results) = Len(chunks)
            /\ \A j \in 1..Len(results) :
                 /\ results[j].text = chunks[j].chunk_text
                 /\ results[j].chunkIndex = chunks[j].chunk_index
                 /\ results[j].similarity = 8 - (j - 1)
      IN /\ unavailable.path = "unavailable"
         /\ threw.path = "catch"
         /\ Expected(unavailable.results)
         /\ Expected(threw.results)
         /\ unavailable.results = threw.results


\* C28: every pass of the while loop of splitByCharacterLimit that does not end
\* the loop leaves start greater than it was, also when end was moved back to a
\* space fewer than overlapSize characters after start, so the loop terminates
C28_SliceStartIncreases ==
  [][\A d \in DocIds :
       (ing[d].pc = "slice" /\ ing'[d].pc = "slice") => ing'[d].start > ing[d].start]_vars

\* C29: POST /chat/message with the conversationId of a conversation of another
\* user appends no message to that conversation and gives none of its messages
\* to the generation as history
C29_ConversationOwnerOnly ==
  \A u \in Users, id \in DOMAIN conversations, q \in Queries, providerOk, genOk \in BOOLEAN :
    conversations[id].user_id # u =>
      LET r == postMessage(u, [message |-> q, documentId |-> NoDocument,
                               conversationId |-> id], providerOk, genOk)
      IN /\ SelectSeq(r.messages, LAMBDA m : m.conversation_id = id)
              = getMessagesByConversationId(id)
         /\ \A j \in 1..Len(r.history) : r.history[j].conversation_id # id

\* C30: a POST /chat/message that succeeds leaves the title of its conversation as
\* it was, set at creation or by PATCH: it adds one user and one assistant
\* message and of the conversation's fields changes updated_at alone
C30_MessageKeepsTitle ==
  \A u \in Users, id \in DOMAIN conversations, q \in Queries, providerOk, genOk \in BOOLEAN :
    LET r == postMessage(u, [message |-> q, documentId |-> NoDocument,
                             conversationId |-> id], providerOk, genOk)
    IN (conversations[id].user_id = u /\ r.status = 200) =>
         /\ Len(r.messages) = Len(messages) + 2
         /\ r.conversations[id].title = conversations[id].title
         /\ r.conversations[id].user_id = conversations[id].user_id
         /\ r.conversations[id].document_id = conversations[id].document_id

====
